---- MODULE Spec2Model ----
(***************************************************************************)
(* Model of the studio_recorder upload handler (POST /api/upload in        *)
(* audio_recorder.py): one process per in-flight request, the shared       *)
(* recordings directory, the wall clock, and the external collaborators    *)
(* (encoder, blob store, transcription script) as nondeterministic         *)
(* outcomes; of _safe_stem on its own; and of the recorder page served    *)
(* by index() (buttons, MediaRecorder, Save handler and their callbacks).  *)
(* The page's noise gate (draw) and save_recording of the command-line     *)
(* recorder have specifications of their own.                              *)
(*                                                                         *)
(* Strings the handler computes on are sequences of one-character strings. *)
(* An optional value is a sequence of length at most one: <<>> is None,    *)
(* <<v>> is the value v.  Decimal seconds are integers.                    *)
(* Filenames in the model hold no path separator.                          *)
(***************************************************************************)
EXTENDS Integers, Sequences, FiniteSets, TLC

\* ------------------------------------------------------------------ bounds
MaxClock == 1
MaxTrim == 2
MaxLen == 3
MaxStarts == 3
MaxPending == 2
MaxTime == 3
MaxLevel == 2
MaxHold == 2
MaxCalls == 2

Requests == {"r1", "r2"}

None == <<>>
Some(v) == <<v>>

\* -------------------------------------------------------- string helpers
UpperChars ==
  <<"A","B","C","D","E","F","G","H","I","J","K","L","M",
    "N","O","P","Q","R","S","T","U","V","W","X","Y","Z">>
LowerChars ==
  <<"a","b","c","d","e","f","g","h","i","j","k","l","m",
    "n","o","p","q","r","s","t","u","v","w","x","y","z">>
DigitChars == <<"0","1","2","3","4","5","6","7","8","9">>

Range(s) == {s[i] : i \in 1..Len(s)}

\* str.isalnum() for one character
IsAlnum(ch) == ch \in Range(UpperChars) \cup Range(LowerChars) \cup Range(DigitChars)

\* str.lower() for one character
LowerChar(ch) ==
  IF ch \in Range(UpperChars)
    THEN LowerChars[CHOOSE i \in 1..26 : UpperChars[i] = ch]
    ELSE ch

\* str.lower()
Lower(s) == [i \in 1..Len(s) |-> LowerChar(s[i])]

\* str.rfind('.') as a 1-based position, 0 when there is no dot
RFindDot(s) ==
  IF \E i \in 1..Len(s) : s[i] = "."
    THEN CHOOSE i \in 1..Len(s) : s[i] = "." /\ \A j \in (i+1)..Len(s) : s[j] # "."
    ELSE 0

\* pathlib: 0 < i < len(name) - 1 with i the 0-based index of the last dot
HasSuffix(name) == RFindDot(name) > 1 /\ RFindDot(name) < Len(name)

\* Path(name).suffix
PathSuffix(name) ==
  IF HasSuffix(name) THEN SubSeq(name, RFindDot(name), Len(name)) ELSE <<>>

\* Path(name).stem
PathStem(name) ==
  IF HasSuffix(name) THEN SubSeq(name, 1, RFindDot(name) - 1) ELSE name

RECURSIVE LStrip(_)
LStrip(s) == IF s # <<>> /\ Head(s) = "_" THEN LStrip(Tail(s)) ELSE s

RECURSIVE RStrip(_)
RStrip(s) ==
  IF s # <<>> /\ s[Len(s)] = "_" THEN RStrip(SubSeq(s, 1, Len(s) - 1)) ELSE s

\* str.strip("_")
StripUnderscore(s) == RStrip(LStrip(s))

RecordingToken == <<"r","e","c","o","r","d","i","n","g">>

SafeStemNoStrip(name) ==
  LET stem == [i \in 1..Len(name) |->
                 IF IsAlnum(name[i]) \/ name[i] \in {"-", "_"} THEN name[i] ELSE "_"]
  IN IF stem # <<>> THEN stem ELSE RecordingToken

\* _safe_stem
SafeStem(name) ==
  LET stem == [i \in 1..Len(name) |->
                 IF IsAlnum(name[i]) \/ name[i] \in {"-", "_"} THEN name[i] ELSE "_"]
  IN IF StripUnderscore(stem) # <<>> THEN StripUnderscore(stem) ELSE RecordingToken

\* datetime.now().strftime("%Y-%m-%d_%H-%M-%S"): the clock of the model is
\* the seconds field, the other fields are fixed
Strftime(t) ==
  <<"2","0","2","5","-","0","1","-","0","4","_","0","0","-","0","0","-">>
    \o <<DigitChars[((t \div 10) % 10) + 1], DigitChars[(t % 10) + 1]>>

\* _timestamp_name
TimestampName(prefix, t) == prefix \o <<"_">> \o Strftime(t)

\* x or y for strings (the empty string is falsy)
OrElse(x, y) == IF x # <<>> THEN x ELSE y

\* name_base or Path(file.filename).stem or "recording"
\* (name_base is optional: None and the empty string are both falsy)
BaseSource(name_base, filename) ==
  OrElse(IF name_base = None THEN <<>> ELSE name_base[1],
         OrElse(PathStem(filename), RecordingToken))

\* (Path(file.filename).suffix or ".bin").lower()
OriginalExt(filename) == Lower(OrElse(PathSuffix(filename), <<".","b","i","n">>))

Mp3Ext == <<".","m","p","3">>

Mp3NameFixed(stem) == <<"o","u","t">> \o Mp3Ext

\* mp3_name = f"{stem}.mp3"
Mp3Name(stem) == stem \o Mp3Ext

\* f"{x}" for an integer-valued float
RECURSIVE NatStr(_)
NatStr(n) == IF n < 10 THEN <<DigitChars[n + 1]>>
             ELSE NatStr(n \div 10) \o <<DigitChars[(n % 10) + 1]>>

FloatStr(x) == (IF x < 0 THEN <<"-">> \o NatStr(-x) ELSE NatStr(x)) \o <<".","0">>

\* a literal argument of a command line
Lit(s) == <<s>>

\* ------------------------------------------------------------- the state
VARIABLES
  now,        \* wall clock, in seconds
  encoder,    \* where the ffmpeg binary is: "local", "path" or "absent"
  env,        \* which of GOOGLE_CLOUD_BUCKET and GOOGLE_CLOUD_PROJECT are set
  fs,         \* RECORDINGS_DIR: file name -> file content
  pc,         \* position of each request in upload()
  req,        \* the form fields of each request
  loc,        \* the local variables of each request
  runs,       \* the subprocess.run calls of each request, in order
  gcs,        \* the blob-store step of each request
  fsBefore,   \* the directory as it was when the request arrived
  resp        \* the HTTP response of each request

\* _safe_stem applied to a name, and applied again to its own result
VARIABLES
  stemPc,     \* how many times _safe_stem has been applied: 0, 1 or 2
  stemIn,     \* the argument
  stemOut,    \* _safe_stem(stemIn)
  stemOut2    \* _safe_stem(stemOut)

\* the recorder page served by index(): its script's variables, the three
\* buttons, and the tasks the browser has queued for it
VARIABLES
  startDisabled,    \* startBtn.disabled
  stopDisabled,     \* stopBtn.disabled
  saveDisabled,     \* saveBtn.disabled
  playDisabled,     \* playBtn.disabled
  statusPill,       \* statusPill.textContent
  recorder,         \* mediaRecorder: "none" when undefined, else its state
  recordingActive,  \* recordingActive
  gatePaused,       \* gatePaused
  lastBlob,         \* lastBlob: 0 when undefined, else the take it holds
  initPending,      \* Start handlers waiting in `await initMic(...)`
  stopTasks,        \* queued stop events, each with the take it ends
  inflight,         \* Save handlers waiting in `await uploadBlob(...)`
  starts,           \* Start handlers run so far
  takes,            \* recordings started so far
  micPassed,        \* some Start handler got past initMic
  staleSave,        \* a Save handler ran while a recording was active
  gateEnabled,      \* gateEnabled.checked
  gateThreshold,    \* gateThreshold.value, in the units of rms
  gateHold,         \* gateHold.value, in the units of dateNow
  silenceStartedAt, \* silenceStartedAt: None for null
  dateNow,          \* Date.now()
  rms,              \* the level of the last frame draw() analysed
  quietSince        \* when the frames' unbroken run below the threshold began

pageVars ==
  <<startDisabled, stopDisabled, saveDisabled, playDisabled, statusPill,
    recorder, recordingActive, gatePaused, lastBlob, initPending, stopTasks,
    inflight, starts, takes, micPassed, staleSave,
    gateEnabled, gateThreshold, gateHold, silenceStartedAt, dateNow, rms,
    quietSince>>

\* what the Start handler leaves alone of the noise gate
gateRest == <<gateEnabled, gateThreshold, gateHold, dateNow, rms, quietSince>>

gateVars == <<gateRest, silenceStartedAt>>

\* the command-line recorder: one call of save_recording at a time and the
\* directory it runs in
VARIABLES
  cliPc,          \* where save_recording stands: "idle" before the first call
  audio_data,     \* its argument: None or the samples
  wav_filename,   \* wav_filename
  mp3_filename,   \* mp3_filename
  cliFs,          \* the working directory: file name -> file
  cliFsBefore,    \* the working directory when the call began
  wavWritten,     \* the call has created or replaced wav_filename
  cliRet,         \* the value returned: None or the MP3's name
  calls           \* calls of save_recording so far

cliVars ==
  <<cliPc, audio_data, wav_filename, mp3_filename, cliFs, cliFsBefore,
    wavWritten, cliRet, calls>>

handlerVars == <<now, encoder, env, fs, pc, req, loc, runs, gcs, fsBefore, resp>>

stemVars == <<stemPc, stemIn, stemOut, stemOut2>>

restVars == <<stemVars, pageVars, cliVars>>

vars == <<handlerVars, stemVars, pageVars, cliVars>>

NoFiles == [n \in {} |-> 0]

NoRequest ==
  [filename |-> <<>>, name_base |-> None, content |-> <<>>,
   trim_start |-> None, trim_end |-> None,
   auto_upload_gcs |-> None, auto_transcribe |-> None]

NoLocals ==
  [ts |-> <<>>, stem |-> <<>>, original_name |-> <<>>, mp3_name |-> <<>>,
   ffmpeg_cmd |-> <<>>, auto_gcs_uploaded |-> FALSE, auto_transcribed |-> FALSE]

NoGcs == [attempted |-> FALSE, outcome |-> "none", blobs |-> {}]

NoResponse ==
  [status |-> 0, detail |-> "",
   original_filename |-> <<>>, mp3_filename |-> <<>>,
   original_url |-> <<>>, mp3_url |-> <<>>,
   auto_gcs_uploaded |-> FALSE, auto_transcribed |-> FALSE]

\* raise HTTPException(status_code, detail)
HTTPException(status, detail) ==
  [NoResponse EXCEPT !.status = status, !.detail = detail]

\* str(RECORDINGS_DIR / name)
RecordingsPath(name) == <<"recordings/">> \o name

\* ----------------------------------------------------------- input sets
TrimValues == {None} \cup {Some(x) : x \in (-1)..MaxTrim}
FlagValues == {None, Some("1"), Some("0")}

Filenames ==
  { <<>>,
    <<"a",".","w","a","v">>,
    <<"a",".","M","P","3">>,
    <<"a">> }

NameBases == {None, Some(<<"s">>), Some(<<"?">>)}

Payloads == {<<>>, <<1>>}

FullInputs ==
  [filename : Filenames, name_base : NameBases, content : Payloads,
   trim_start : TrimValues, trim_end : TrimValues,
   auto_upload_gcs : FlagValues, auto_transcribe : FlagValues]

PairInputs ==
  [filename : {<<"a",".","w","a","v">>, <<"a",".","M","P","3">>},
   name_base : {None, Some(<<"s">>)},
   content : {<<1>>, <<2>>},
   trim_start : {None}, trim_end : {None, Some(1)},
   auto_upload_gcs : {None}, auto_transcribe : {None}]

\* ------------------------------------------------------------------ Init
HandlerInit ==
  /\ now = 0
  /\ encoder \in {"local", "path", "absent"}
  /\ env \in [bucket : BOOLEAN, project : BOOLEAN]
  /\ fs = NoFiles
  /\ pc = [r \in Requests |-> "idle"]
  /\ req = [r \in Requests |-> NoRequest]
  /\ loc = [r \in Requests |-> NoLocals]
  /\ runs = [r \in Requests |-> <<>>]
  /\ gcs = [r \in Requests |-> NoGcs]
  /\ fsBefore = [r \in Requests |-> NoFiles]
  /\ resp = [r \in Requests |-> NoResponse]

StemIdle ==
  /\ stemPc = 0
  /\ stemIn = <<>>
  /\ stemOut = <<>>
  /\ stemOut2 = <<>>

\* the page as served: the markup disables Stop, Save and Play, and the
\* script ends with setStatus('Idle')
PageLoaded ==
  /\ startDisabled = FALSE
  /\ stopDisabled = TRUE
  /\ saveDisabled = TRUE
  /\ playDisabled = TRUE
  /\ statusPill = "Idle"
  /\ recorder = "none"
  /\ recordingActive = FALSE
  /\ gatePaused = FALSE
  /\ lastBlob = 0
  /\ initPending = 0
  /\ stopTasks = <<>>
  /\ inflight = <<>>
  /\ starts = 0
  /\ takes = 0
  /\ micPassed = FALSE
  /\ staleSave = FALSE
  /\ gateEnabled = TRUE
  /\ gateThreshold = 1
  /\ gateHold = 1
  /\ silenceStartedAt = None
  /\ dateNow = 0
  /\ rms = 0
  /\ quietSince = None

CliIdle ==
  /\ cliPc = "idle"
  /\ audio_data = None
  /\ wav_filename = <<>>
  /\ mp3_filename = <<>>
  /\ cliFs = NoFiles
  /\ cliFsBefore = NoFiles
  /\ wavWritten = FALSE
  /\ cliRet = None
  /\ calls = 0

Init == HandlerInit /\ StemIdle /\ PageLoaded /\ CliIdle

\* --------------------------------------------------------------- helpers
WriteFileExclusive(dir, name, file) ==
  [n \in DOMAIN dir \cup {name} |-> IF n \in DOMAIN dir THEN dir[n] ELSE file]

\* Path.write_bytes and the encoder's -y: create the file or replace it
WriteFile(dir, name, file) ==
  [n \in DOMAIN dir \cup {name} |-> IF n = name THEN file ELSE dir[n]]

Uploaded(bytes) == [via |-> "upload", data |-> bytes, ss |-> None, t |-> None]

\* what the encoder writes for an input file and a trim window
Encoded(input, ss, t) == [via |-> "ffmpeg", data |-> input.data, ss |-> ss, t |-> t]

\* an output the encoder left behind when it failed
Partial(input) == [via |-> "ffmpeg-partial", data |-> input.data, ss |-> None, t |-> None]

\* _ffmpeg_bin
FfmpegBin == IF encoder = "local" THEN <<"./ffmpeg">> ELSE <<"ffmpeg">>

TrimErrorStrict(trim_start, trim_end) ==
  IF trim_start # None /\ trim_start[1] < 0 THEN Some("trim_start must be >= 0")
  ELSE IF trim_end # None /\ trim_end[1] < 0 THEN Some("trim_end must be >= 0")
  ELSE IF trim_start # None /\ trim_end # None /\ trim_end[1] < trim_start[1]
    THEN Some("trim_end must be > trim_start")
  ELSE None

\* the three trim checks of upload(), in order: None or the detail of the 400
TrimError(trim_start, trim_end) ==
  IF trim_start # None /\ trim_start[1] < 0 THEN Some("trim_start must be >= 0")
  ELSE IF trim_end # None /\ trim_end[1] < 0 THEN Some("trim_end must be >= 0")
  ELSE IF trim_start # None /\ trim_end # None /\ trim_end[1] <= trim_start[1]
    THEN Some("trim_end must be > trim_start")
  ELSE None

DurationEndOnly(trim_start, trim_end) == trim_end[1]

\* trim_end - (trim_start or 0.0)
Duration(trim_start, trim_end) ==
  trim_end[1] - (IF trim_start # None THEN trim_start[1] ELSE 0)

\* ffmpeg_cmd with the trim flags
FfmpegCmd(original_name, trim_start, trim_end) ==
  <<FfmpegBin, Lit("-y"), Lit("-v"), Lit("error"), Lit("-i"),
    RecordingsPath(original_name)>>
  \o (IF trim_start # None THEN <<Lit("-ss"), FloatStr(trim_start[1])>> ELSE <<>>)
  \o (IF trim_end # None
        THEN <<Lit("-t"), FloatStr(Duration(trim_start, trim_end))>> ELSE <<>>)

\* the argument list handed to subprocess.run
EncoderArgv(ffmpeg_cmd, mp3_name) ==
  ffmpeg_cmd
  \o <<Lit("-vn"), Lit("-ac"), Lit("1"), Lit("-ar"), Lit("44100"),
       Lit("-codec:a"), Lit("libmp3lame"), Lit("-qscale:a"), Lit("3"),
       RecordingsPath(mp3_name)>>

EmptyUploadNever(content) == FALSE

\* `not content`
EmptyUpload(content) == Len(content) = 0

FlagSetTruthy(flag) == flag # None /\ flag # Some("")

\* auto_upload_gcs == "1", auto_transcribe == "1"
FlagSet(flag) == flag = Some("1")

\* the except clauses around the blob-store step
GcsCaught(exc) == exc \in {"ImportError", "OSError"}

EncoderErrorSwallowMissing(exc) ==
  IF exc = "CalledProcessError" THEN Some("ffmpeg failed") ELSE None

\* the except clauses around the encoder: None or the detail of the 500
EncoderError(exc) ==
  IF exc = "FileNotFoundError" THEN Some("ffmpeg not found")
  ELSE IF exc = "CalledProcessError" THEN Some("ffmpeg failed")
  ELSE None

\* the except clause around the transcription process
SttCaught(exc) == exc \in {"OSError", "SubprocessError"}

\* ---------------------------------------------------------------- actions
Tick ==
  /\ now < MaxClock
  /\ now' = now + 1
  /\ UNCHANGED <<encoder, env, fs, pc, req, loc, runs, gcs, fsBefore, resp>>
  /\ UNCHANGED restVars

\* a POST /api/upload arrives
Receive(r, inputs) ==
  /\ pc[r] = "idle"
  /\ \E q \in inputs : req' = [req EXCEPT ![r] = q]
  /\ pc' = [pc EXCEPT ![r] = "received"]
  /\ fsBefore' = [fsBefore EXCEPT ![r] = fs]
  /\ UNCHANGED <<now, encoder, env, fs, loc, runs, gcs, resp>>
  /\ UNCHANGED restVars

Fail(r, response) ==
  /\ pc' = [pc EXCEPT ![r] = "failed"]
  /\ resp' = [resp EXCEPT ![r] = response]

\* the filename check and the name derivation, up to `await file.read()`
DeriveName(r) ==
  /\ pc[r] = "received"
  /\ IF req[r].filename = <<>>
       THEN /\ Fail(r, HTTPException(400, "missing filename"))
            /\ UNCHANGED loc
       ELSE LET base == SafeStem(BaseSource(req[r].name_base, req[r].filename))
                stem == TimestampName(base, now)
            IN /\ loc' = [loc EXCEPT ![r].ts = Strftime(now),
                                     ![r].stem = stem,
                                     ![r].original_name = stem \o OriginalExt(req[r].filename)]
               /\ pc' = [pc EXCEPT ![r] = "named"]
               /\ UNCHANGED resp
  /\ UNCHANGED <<now, encoder, env, fs, req, runs, gcs, fsBefore>>
  /\ UNCHANGED restVars

\* the empty-payload check and original_path.write_bytes(content)
PersistOriginal(r) ==
  /\ pc[r] = "named"
  /\ IF EmptyUpload(req[r].content)
       THEN /\ Fail(r, HTTPException(400, "empty upload"))
            /\ UNCHANGED <<fs, loc>>
       ELSE /\ fs' = WriteFile(fs, loc[r].original_name, Uploaded(req[r].content))
            /\ loc' = [loc EXCEPT ![r].mp3_name = Mp3Name(loc[r].stem)]
            /\ pc' = [pc EXCEPT ![r] = "persisted"]
            /\ UNCHANGED resp
  /\ UNCHANGED <<now, encoder, env, req, runs, gcs, fsBefore>>
  /\ UNCHANGED restVars

\* the trim checks and the assembly of ffmpeg_cmd
ValidateTrim(r) ==
  /\ pc[r] = "persisted"
  /\ LET err == TrimError(req[r].trim_start, req[r].trim_end)
     IN IF err # None
          THEN /\ Fail(r, HTTPException(400, err[1]))
               /\ UNCHANGED loc
          ELSE /\ loc' = [loc EXCEPT ![r].ffmpeg_cmd =
                            FfmpegCmd(loc[r].original_name,
                                      req[r].trim_start, req[r].trim_end)]
               /\ pc' = [pc EXCEPT ![r] = "validated"]
               /\ UNCHANGED resp
  /\ UNCHANGED <<now, encoder, env, fs, req, runs, gcs, fsBefore>>
  /\ UNCHANGED restVars

EncoderEffectCleanup(dir, outcome, original_name, mp3_name, trim_start, trim_end) ==
  IF outcome = "ok"
    THEN WriteFile(dir, mp3_name,
           Encoded(dir[original_name], trim_start,
                   IF trim_end = None THEN None
                   ELSE Some(Duration(trim_start, trim_end))))
  ELSE IF outcome \in {"CalledProcessError", "CalledProcessError-partial"}
    THEN [n \in DOMAIN dir \ {original_name, mp3_name} |-> dir[n]]
  ELSE dir

\* the directory after the encoder process: the output file on success (-y
\* replaces an existing one), possibly a partial output on failure, and
\* nothing when the process could not be started
EncoderEffect(dir, outcome, original_name, mp3_name, trim_start, trim_end) ==
  IF outcome = "ok"
    THEN WriteFile(dir, mp3_name,
           Encoded(dir[original_name], trim_start,
                   IF trim_end = None THEN None
                   ELSE Some(Duration(trim_start, trim_end))))
  ELSE IF outcome = "CalledProcessError-partial"
    THEN WriteFile(dir, mp3_name, Partial(dir[original_name]))
  ELSE dir

\* what subprocess.run(..., check=True) can do for the encoder
EncoderOutcomes ==
  IF encoder = "absent" THEN {"FileNotFoundError"}
  ELSE {"ok", "CalledProcessError", "CalledProcessError-partial"}

\* subprocess.run of the encoder and its except clauses
RunEncoder(r) ==
  /\ pc[r] = "validated"
  /\ \E outcome \in EncoderOutcomes :
       LET argv == EncoderArgv(loc[r].ffmpeg_cmd, loc[r].mp3_name)
           exc == IF outcome = "CalledProcessError-partial"
                    THEN "CalledProcessError" ELSE outcome
           err == EncoderError(exc)
       IN /\ runs' = [runs EXCEPT ![r] =
                        Append(@, [argv |-> argv, outcome |-> outcome])]
          /\ fs' = EncoderEffect(fs, outcome, loc[r].original_name, loc[r].mp3_name,
                                 req[r].trim_start, req[r].trim_end)
          /\ IF err # None
               THEN Fail(r, HTTPException(500, err[1]))
               ELSE /\ pc' = [pc EXCEPT ![r] = "encoded"]
                    /\ UNCHANGED resp
  /\ UNCHANGED <<now, encoder, env, req, loc, gcs, fsBefore>>
  /\ UNCHANGED restVars

\* what the blob-store block can do: the import or gcs.Client() raises; then
\* os.getenv("GOOGLE_CLOUD_BUCKET") is read and, when it is unset, nothing
\* is uploaded ("no-bucket"); else upload_from_filename raises or uploads
GcsOutcomes ==
  {"ImportError", "DefaultCredentialsError", "OSError"}
  \cup (IF env.bucket THEN {"GoogleAPICallError", "uploaded"} ELSE {"no-bucket"})

GcsExceptions == {"ImportError", "DefaultCredentialsError", "OSError", "GoogleAPICallError"}

\* the auto-upload block
AutoUploadGcs(r) ==
  /\ pc[r] = "encoded"
  /\ IF FlagSet(req[r].auto_upload_gcs)
       THEN \E outcome \in GcsOutcomes :
              /\ gcs' = [gcs EXCEPT ![r] =
                           [attempted |-> TRUE, outcome |-> outcome,
                            blobs |-> IF outcome = "uploaded"
                                        THEN {loc[r].mp3_name} ELSE {}]]
              /\ IF outcome \in GcsExceptions /\ ~GcsCaught(outcome)
                   THEN /\ Fail(r, HTTPException(500, "Internal Server Error"))
                        /\ UNCHANGED loc
                   ELSE /\ loc' = [loc EXCEPT ![r].auto_gcs_uploaded =
                                                (outcome = "uploaded")]
                        /\ pc' = [pc EXCEPT ![r] = "uploaded"]
                        /\ UNCHANGED resp
       ELSE /\ pc' = [pc EXCEPT ![r] = "uploaded"]
            /\ UNCHANGED <<gcs, loc, resp>>
  /\ UNCHANGED <<now, encoder, env, fs, req, runs, fsBefore>>
  /\ UNCHANGED restVars

\* what subprocess.run(..., check=False) can do for gc_stt.py: the process
\* cannot be started ("OSError"); the script stops at its imports or at the
\* checks of PROJECT_ID and args.bucket ("exit-1"); with both set,
\* upload_to_gcs fails before the upload ("exit-1-bucket"), or the MP3 is
\* uploaded and the recognition fails ("exit-1-recognize") or succeeds
SttOutcomes ==
  {"OSError", "exit-1"}
  \cup (IF env.project /\ env.bucket
         THEN {"exit-1-bucket", "exit-1-recognize", "exit-0"} ELSE {})

\* the outcomes in which gc_stt.py has called the cloud services
SttNetwork(outcome) == outcome \in {"exit-1-bucket", "exit-1-recognize", "exit-0"}

\* the outcomes in which upload_to_gcs of gc_stt.py has uploaded the MP3
SttUploaded(outcome) == outcome \in {"exit-1-recognize", "exit-0"}

SttArgv(mp3_name) == <<Lit("python"), Lit("gc_stt.py"), RecordingsPath(mp3_name)>>

\* the auto-transcribe block
AutoTranscribe(r) ==
  /\ pc[r] = "uploaded"
  /\ IF FlagSet(req[r].auto_transcribe)
       THEN \E outcome \in SttOutcomes :
              /\ runs' = [runs EXCEPT ![r] =
                            Append(@, [argv |-> SttArgv(loc[r].mp3_name),
                                       outcome |-> outcome])]
              /\ IF outcome = "OSError" /\ ~SttCaught(outcome)
                   THEN /\ Fail(r, HTTPException(500, "Internal Server Error"))
                        /\ UNCHANGED loc
                   ELSE /\ loc' = [loc EXCEPT ![r].auto_transcribed =
                                                (outcome = "exit-0")]
                        /\ pc' = [pc EXCEPT ![r] = "transcribed"]
                        /\ UNCHANGED resp
       ELSE /\ pc' = [pc EXCEPT ![r] = "transcribed"]
            /\ UNCHANGED <<runs, loc, resp>>
  /\ UNCHANGED <<now, encoder, env, fs, req, gcs, fsBefore>>
  /\ UNCHANGED restVars

\* return JSONResponse({...})
Respond(r) ==
  /\ pc[r] = "transcribed"
  /\ resp' = [resp EXCEPT ![r] =
       [status |-> 200, detail |-> "",
        original_filename |-> loc[r].original_name,
        mp3_filename |-> loc[r].mp3_name,
        original_url |-> <<"/recordings/">> \o loc[r].original_name,
        mp3_url |-> <<"/recordings/">> \o loc[r].mp3_name,
        auto_gcs_uploaded |-> loc[r].auto_gcs_uploaded,
        auto_transcribed |-> loc[r].auto_transcribed]]
  /\ pc' = [pc EXCEPT ![r] = "done"]
  /\ UNCHANGED <<now, encoder, env, fs, req, loc, runs, gcs, fsBefore>>
  /\ UNCHANGED restVars

\* ------------------------------------------------------- specifications
\* one request with every combination of form fields
ReceiveOne == Receive("r1", FullInputs)

\* two requests in flight
ReceiveAny == \E r \in Requests : Receive(r, PairInputs)

Step ==
  \/ \E r \in Requests : DeriveName(r)
  \/ \E r \in Requests : PersistOriginal(r)
  \/ \E r \in Requests : ValidateTrim(r)
  \/ \E r \in Requests : RunEncoder(r)
  \/ \E r \in Requests : AutoUploadGcs(r)
  \/ \E r \in Requests : AutoTranscribe(r)
  \/ \E r \in Requests : Respond(r)

Next == Tick \/ ReceiveOne \/ Step

Spec == Init /\ [][Next]_vars

NextPair == Tick \/ ReceiveAny \/ Step

PairInit == Init /\ env = [bucket |-> TRUE, project |-> TRUE]

SpecPair == PairInit /\ [][NextPair]_vars

TypeOK ==
  /\ now \in 0..MaxClock
  /\ pc \in [Requests -> {"idle", "received", "named", "persisted", "validated",
                          "encoded", "uploaded", "transcribed", "done", "failed"}]
  /\ \A r \in Requests : Len(runs[r]) <= 2

\* ------------------------------------------------------------ properties
HasArg(argv, s) == \E i \in 1..Len(argv) : argv[i] = Lit(s)

IsEncoderRun(run) == run.argv[1] \in {<<"./ffmpeg">>, <<"ffmpeg">>}

Arrived(r) == pc[r] # "idle"

\* C1: with a payload and a filename, a pair trim_end > trim_start >= 0 is
\* never rejected by validation and every encoder invocation carries both
\* -ss and -t; a pair trim_end <= trim_start ends in a 400 and the encoder is
\* never invoked.
C1_TrimPairs ==
  \A r \in Requests :
    (/\ Arrived(r)
     /\ req[r].filename # <<>> /\ req[r].content # <<>>
     /\ req[r].trim_start # None /\ req[r].trim_end # None)
    => LET s == req[r].trim_start[1]
           e == req[r].trim_end[1]
       IN /\ (e > s /\ s >= 0) =>
               /\ resp[r].status # 400
               /\ \A i \in 1..Len(runs[r]) :
                    IsEncoderRun(runs[r][i]) =>
                      HasArg(runs[r][i].argv, "-ss") /\ HasArg(runs[r][i].argv, "-t")
          /\ (e <= s) =>
               /\ runs[r] = <<>>
               /\ pc[r] \in {"received", "named", "persisted", "failed"}
               /\ (pc[r] = "failed" => resp[r].status = 400)

C1_Witness ==
  \E r \in Requests :
    /\ req[r].trim_start = Some(1) /\ req[r].trim_end = Some(2)
    /\ Len(runs[r]) >= 1
    /\ HasArg(runs[r][1].argv, "-ss") /\ HasArg(runs[r][1].argv, "-t")
    /\ pc[r] = "done"

\* C2 (as claimed): a request rejected with a 400 leaves the output
\* directory as it was when the request arrived.
C2_RejectedWritesNothing ==
  \A r \in Requests : resp[r].status = 400 => fs = fsBefore[r]

\* C3: an empty payload ends in a 400 whatever the other fields are, and the
\* encoder and the publish steps are never run for it.
C3_EmptyPayload ==
  \A r \in Requests :
    (Arrived(r) /\ req[r].content = <<>>)
    => /\ runs[r] = <<>>
       /\ ~gcs[r].attempted
       /\ pc[r] \in {"received", "named", "failed"}
       /\ (pc[r] = "failed" => resp[r].status = 400)

C3_Witness ==
  \E r \in Requests :
    /\ req[r].content = <<>>
    /\ req[r].auto_upload_gcs = Some("1") /\ req[r].auto_transcribe = Some("1")
    /\ req[r].trim_start = Some(0) /\ req[r].trim_end = Some(1)
    /\ pc[r] = "failed" /\ resp[r].detail = "empty upload"

\* C4: when the encoder binary cannot be located the request fails with
\* 500 'ffmpeg not found', the encoder has written nothing, and neither
\* publish step is attempted.
C4_EncoderMissing ==
  \A r \in Requests :
    (Len(runs[r]) >= 1 /\ runs[r][1].outcome = "FileNotFoundError")
    => /\ pc[r] = "failed"
       /\ resp[r].status = 500 /\ resp[r].detail = "ffmpeg not found"
       /\ Len(runs[r]) = 1
       /\ ~gcs[r].attempted
       /\ \A n \in DOMAIN fs : fs[n].via = "upload"

C4_Witness ==
  \E r \in Requests :
    /\ encoder = "absent"
    /\ req[r].auto_upload_gcs = Some("1") /\ req[r].auto_transcribe = Some("1")
    /\ Len(runs[r]) = 1 /\ runs[r][1].outcome = "FileNotFoundError"
    /\ resp[r].detail = "ffmpeg not found"

\* C5 (as claimed): whatever goes wrong in the blob-store step, the request
\* does not fail and answers auto_gcs_uploaded = false.
C5_GcsFailureAbsorbed ==
  \A r \in Requests :
    (gcs[r].attempted /\ gcs[r].outcome # "uploaded")
    => /\ pc[r] # "failed"
       /\ (pc[r] = "done" => resp[r].status = 200 /\ ~resp[r].auto_gcs_uploaded)

\* C6 (as claimed): with auto_transcribe requested and a successful encode
\* the request never fails, the transcription process is run on the MP3
\* path, and auto_transcribed is true exactly when it exits with code 0.
C6_TranscribeOutcome ==
  \A r \in Requests :
    (/\ req[r].auto_transcribe = Some("1")
     /\ Len(runs[r]) >= 1 /\ runs[r][1].outcome = "ok")
    => /\ pc[r] # "failed"
       /\ (pc[r] = "done" =>
             /\ Len(runs[r]) = 2
             /\ runs[r][2].argv = SttArgv(loc[r].mp3_name)
             /\ resp[r].status = 200
             /\ resp[r].auto_transcribed = (runs[r][2].outcome = "exit-0"))

\* C7: when neither flag is exactly "1", no remote upload is attempted, the
\* encoder is the only process the request runs, and a successful response
\* carries auto_gcs_uploaded = auto_transcribed = false.
C7_NoFlagsNoPublish ==
  \A r \in Requests :
    (/\ Arrived(r)
     /\ req[r].auto_upload_gcs # Some("1")
     /\ req[r].auto_transcribe # Some("1"))
    => /\ ~gcs[r].attempted /\ gcs[r].blobs = {}
       /\ Len(runs[r]) <= 1
       /\ \A i \in 1..Len(runs[r]) : IsEncoderRun(runs[r][i])
       /\ (pc[r] = "done" =>
             ~resp[r].auto_gcs_uploaded /\ ~resp[r].auto_transcribed)

C7_Witness ==
  \E r \in Requests :
    /\ req[r].auto_upload_gcs = Some("0") /\ req[r].auto_transcribe = Some("0")
    /\ pc[r] = "done" /\ resp[r].status = 200
    /\ Len(runs[r]) = 1

\* C8 (as claimed): the encoder's input path differs from its output path
\* for every accepted filename, and a successful request leaves the original
\* with the uploaded bytes and the MP3 as two files.
C8_TwoDistinctFiles ==
  \A r \in Requests :
    /\ (Len(runs[r]) >= 1 => loc[r].original_name # loc[r].mp3_name)
    /\ (pc[r] = "done" =>
          /\ loc[r].original_name \in DOMAIN fs
          /\ loc[r].mp3_name \in DOMAIN fs
          /\ fs[loc[r].original_name] = Uploaded(req[r].content))

Named(r) == loc[r].stem # <<>>

Persisted(r) == loc[r].mp3_name # <<>>

\* the state part of C9: same sanitized base, same extension and same second
\* give the same stem, original path and MP3 path; with valid inputs only the
\* encoder can make a request fail
C9_SamePaths ==
  \A r1, r2 \in Requests :
    /\ (/\ Named(r1) /\ Named(r2)
        /\ SafeStem(BaseSource(req[r1].name_base, req[r1].filename))
             = SafeStem(BaseSource(req[r2].name_base, req[r2].filename))
        /\ OriginalExt(req[r1].filename) = OriginalExt(req[r2].filename)
        /\ loc[r1].ts = loc[r2].ts)
       => /\ loc[r1].stem = loc[r2].stem
          /\ loc[r1].original_name = loc[r2].original_name
          /\ (Persisted(r1) /\ Persisted(r2) => loc[r1].mp3_name = loc[r2].mp3_name)
    /\ (pc[r1] = "failed" =>
          /\ resp[r1].status = 500
          /\ Len(runs[r1]) = 1 /\ runs[r1][1].outcome # "ok")

\* the step part of C9: persisting the original goes through whether or not
\* the file exists, and leaves the bytes of the request that wrote last
C9_LastWriteWins ==
  \A r \in Requests :
    (pc[r] = "named" /\ pc'[r] # "named")
    => /\ pc'[r] = "persisted"
       /\ DOMAIN fs' = DOMAIN fs \cup {loc[r].original_name}
       /\ fs'[loc[r].original_name] = Uploaded(req[r].content)

\* C9: two requests with the same sanitized base, the same extension and the
\* same clock second derive the same paths; the later write replaces the
\* earlier one, nothing detects the collision and no request fails for it.
C9_SilentOverwrite == []C9_SamePaths /\ [][C9_LastWriteWins]_vars

C9_Witness ==
  \E r1, r2 \in Requests :
    /\ r1 # r2
    /\ pc[r1] = "done" /\ pc[r2] = "done"
    /\ loc[r1].original_name = loc[r2].original_name
    /\ req[r1].content # req[r2].content
    /\ fs[loc[r1].original_name] = Uploaded(req[r2].content)

FileStep(n) ==
  \E r \in Requests :
    \/ pc[r] = "named" /\ pc'[r] = "persisted" /\ n = loc[r].original_name
    \/ pc[r] = "validated" /\ pc'[r] # "validated" /\ n = loc'[r].mp3_name

\* C10 (as claimed): once a file is in the output directory no step changes
\* its content or removes it.
C10_NeverMutated ==
  [][\A n \in DOMAIN fs : n \in DOMAIN fs' /\ fs'[n] = fs[n]]_vars

\* C10 (amended): no step removes a file, and a file's content changes only
\* in the step of a request that persists its original at that path or runs
\* the encoder with that path as output.
C10_OnlyOwnPathsWritten ==
  [][\A n \in DOMAIN fs :
       /\ n \in DOMAIN fs'
       /\ (fs'[n] # fs[n] => FileStep(n))]_vars

C10_Witness ==
  \E r1, r2 \in Requests :
    /\ r1 # r2
    /\ pc[r1] = "done" /\ pc[r2] = "done"
    /\ loc[r1].mp3_name = loc[r2].mp3_name
    /\ req[r1].content # req[r2].content
    /\ fs[loc[r1].mp3_name].via = "ffmpeg"
    /\ loc[r1].original_name \in DOMAIN fs /\ loc[r2].original_name \in DOMAIN fs

\* ------------------------------------------------- _safe_stem on its own
\* the characters names are made of: letters of both cases, a digit, the two
\* characters _safe_stem keeps besides alphanumerics, and characters it replaces
StemChars == {"a", "Z", "7", "-", "_", "?", " "}

StemInputs == UNION {[1..n -> StemChars] : n \in 0..MaxLen}

StemInit ==
  /\ HandlerInit /\ encoder = "path" /\ env = [bucket |-> TRUE, project |-> TRUE]
  /\ PageLoaded
  /\ CliIdle
  /\ stemPc = 0
  /\ stemIn \in StemInputs
  /\ stemOut = <<>>
  /\ stemOut2 = <<>>

\* base = _safe_stem(name)
Sanitize ==
  /\ stemPc = 0
  /\ stemOut' = SafeStem(stemIn)
  /\ stemPc' = 1
  /\ UNCHANGED <<stemIn, stemOut2, handlerVars, pageVars, cliVars>>

\* _safe_stem applied to a name that _safe_stem produced
SanitizeAgain ==
  /\ stemPc = 1
  /\ stemOut2' = SafeStem(stemOut)
  /\ stemPc' = 2
  /\ UNCHANGED <<stemIn, stemOut, handlerVars, pageVars, cliVars>>

StemNext == Sanitize \/ SanitizeAgain

SpecStem == StemInit /\ [][StemNext]_vars

Allowed(ch) == IsAlnum(ch) \/ ch \in {"-", "_"}

\* C11: _safe_stem(s) is non-empty and made of alphanumerics, '-' and '_'
\* only, applying _safe_stem to it again changes nothing, and an s without
\* any allowed character (the empty s included) gives "recording".
C11_SafeStemClosed ==
  /\ stemPc >= 1 =>
       /\ stemOut # <<>>
       /\ \A i \in 1..Len(stemOut) : Allowed(stemOut[i])
       /\ ((\A i \in 1..Len(stemIn) : ~Allowed(stemIn[i])) => stemOut = RecordingToken)
  /\ stemPc = 2 => stemOut2 = stemOut

C11_Witness ==
  /\ stemPc = 2
  /\ stemIn = <<"?", "a", " ">>
  /\ stemOut = <<"a">>
  /\ stemOut2 = <<"a">>

\* ------------------------------------------- properties of the pipeline
EncodeOk(r) == Len(runs[r]) >= 1 /\ runs[r][1].outcome = "ok"

\* C12 (as claimed): with auto_upload_gcs set and no bucket configured
\* nothing is uploaded and the request succeeds with auto_gcs_uploaded =
\* false; with auto_transcribe set and the project or the bucket unset the
\* script ends nonzero before any network call and the request succeeds with
\* auto_transcribed = false.
C12_MissingConfigNoOp ==
  \A r \in Requests :
    /\ (req[r].auto_upload_gcs = Some("1") /\ ~env.bucket /\ EncodeOk(r))
       => /\ pc[r] # "failed"
          /\ gcs[r].blobs = {}
          /\ (pc[r] = "done" => resp[r].status = 200 /\ ~resp[r].auto_gcs_uploaded)
    /\ (req[r].auto_transcribe = Some("1") /\ (~env.project \/ ~env.bucket) /\ EncodeOk(r))
       => /\ pc[r] # "failed"
          /\ (Len(runs[r]) = 2 =>
                runs[r][2].outcome # "exit-0" /\ ~SttNetwork(runs[r][2].outcome))
          /\ (pc[r] = "done" =>
                Len(runs[r]) = 2 /\ resp[r].status = 200 /\ ~resp[r].auto_transcribed)

\* C13: a request that passes validation launches the encoder once and never
\* again; when the encoder exits nonzero the request fails with 500 'ffmpeg
\* failed', no publish step runs and the persisted original is still there.
C13_EncoderOnce ==
  \A r \in Requests :
    /\ Cardinality({i \in 1..Len(runs[r]) : IsEncoderRun(runs[r][i])}) <= 1
    /\ (pc[r] \in {"encoded", "uploaded", "transcribed", "done"} =>
          IsEncoderRun(runs[r][1]))
    /\ (Len(runs[r]) >= 1
        /\ runs[r][1].outcome \in {"CalledProcessError", "CalledProcessError-partial"})
       => /\ pc[r] = "failed"
          /\ resp[r].status = 500 /\ resp[r].detail = "ffmpeg failed"
          /\ Len(runs[r]) = 1
          /\ ~gcs[r].attempted
          /\ loc[r].original_name \in DOMAIN fs

C13_Witness ==
  \E r \in Requests :
    /\ req[r].auto_upload_gcs = Some("1") /\ req[r].auto_transcribe = Some("1")
    /\ Len(runs[r]) = 1 /\ runs[r][1].outcome = "CalledProcessError"
    /\ resp[r].detail = "ffmpeg failed"
    /\ loc[r].original_name \in DOMAIN fs

\* C14: the original is persisted before the encoder is launched, a publish
\* step starts only after the encoder has succeeded, the blob-store attempt
\* is over before the transcription process starts, and the response is
\* sent after the requested publish steps.
C14_StepOrder ==
  \A r \in Requests :
    /\ (Len(runs[r]) >= 1 =>
          /\ IsEncoderRun(runs[r][1])
          /\ loc[r].original_name \in DOMAIN fs)
    /\ (gcs[r].attempted => EncodeOk(r))
    /\ (Len(runs[r]) >= 2 =>
          /\ EncodeOk(r)
          /\ runs[r][2].argv = SttArgv(loc[r].mp3_name)
          /\ (req[r].auto_upload_gcs = Some("1") => gcs[r].attempted))
    /\ (resp[r].status = 200 =>
          /\ EncodeOk(r)
          /\ (req[r].auto_upload_gcs = Some("1") => gcs[r].attempted)
          /\ (req[r].auto_transcribe = Some("1") => Len(runs[r]) = 2))

C14_Witness ==
  \E r \in Requests :
    /\ req[r].auto_upload_gcs = Some("1") /\ req[r].auto_transcribe = Some("1")
    /\ resp[r].status = 200
    /\ gcs[r].outcome = "uploaded"
    /\ Len(runs[r]) = 2 /\ runs[r][2].outcome = "exit-0"

\* what a request leaves at its MP3 path when its encoder succeeds
OwnMp3(r) ==
  [via |-> "ffmpeg", data |-> req[r].content, ss |-> req[r].trim_start,
   t |-> IF req[r].trim_end = None THEN None
         ELSE Some(req[r].trim_end[1]
                   - (IF req[r].trim_start = None THEN 0 ELSE req[r].trim_start[1]))]

\* C15: two requests whose stems differ do not touch each other's files:
\* each one's own paths hold only its own bytes, a finished request finds
\* its original and its MP3 as it would have left them alone, and its
\* response names its own files.
C15_DisjointStems ==
  \A r1, r2 \in Requests :
    (r1 # r2 /\ Named(r1) /\ Named(r2) /\ loc[r1].stem # loc[r2].stem)
    => /\ {loc[r1].original_name, loc[r1].stem \o Mp3Ext}
            \cap {loc[r2].original_name, loc[r2].stem \o Mp3Ext} = {}
       /\ \A n \in {loc[r1].original_name, loc[r1].stem \o Mp3Ext} \cap DOMAIN fs :
            fs[n].data = req[r1].content
       /\ (Persisted(r1) => loc[r1].original_name \in DOMAIN fs)
       /\ (pc[r1] = "done" =>
             /\ fs[loc[r1].mp3_name] = OwnMp3(r1)
             /\ fs[loc[r1].original_name] =
                  IF loc[r1].original_name = loc[r1].mp3_name
                    THEN OwnMp3(r1) ELSE Uploaded(req[r1].content)
             /\ resp[r1].original_filename = loc[r1].original_name
             /\ resp[r1].mp3_filename = loc[r1].mp3_name)

C15_Witness ==
  \E r1, r2 \in Requests :
    /\ r1 # r2
    /\ pc[r1] = "done" /\ pc[r2] = "done"
    /\ loc[r1].stem # loc[r2].stem
    /\ req[r1].content # req[r2].content
    /\ loc[r1].ts = loc[r2].ts

\* the uploads of the MP3 a request has caused: by the handler and by gc_stt.py
HandlerUploads(r) == Cardinality(gcs[r].blobs)

SttUploads(r) ==
  Cardinality({i \in 1..Len(runs[r]) :
                 ~IsEncoderRun(runs[r][i]) /\ SttUploaded(runs[r][i].outcome)})

\* C16 (as claimed): a request runs at most two processes and causes at most
\* one outbound upload of the MP3, whatever the flags.
C16_OneUpload ==
  \A r \in Requests :
    /\ Len(runs[r]) <= 2
    /\ HandlerUploads(r) + SttUploads(r) <= 1

\* C16 (amended): a request runs at most two processes; the handler uploads
\* the MP3 at most once and only with auto_upload_gcs = "1", gc_stt.py
\* uploads it at most once and only with auto_transcribe = "1".
C16_OneUploadEach ==
  \A r \in Requests :
    /\ Len(runs[r]) <= 2
    /\ HandlerUploads(r) <= 1 /\ SttUploads(r) <= 1
    /\ (req[r].auto_upload_gcs # Some("1") => HandlerUploads(r) = 0)
    /\ (req[r].auto_transcribe # Some("1") => SttUploads(r) = 0)

C16_Witness ==
  \E r \in Requests :
    /\ pc[r] = "done"
    /\ HandlerUploads(r) = 1 /\ SttUploads(r) = 1
    /\ Len(runs[r]) = 2

\* the position of a literal argument in a command line, 0 when absent
ArgPos(argv, s) ==
  IF HasArg(argv, s) THEN CHOOSE i \in 1..Len(argv) : argv[i] = Lit(s) ELSE 0

\* C17: the encoder's arguments hold '-ss <trim_start>' exactly when
\* trim_start was given and '-t <d>' exactly when trim_end was given, with
\* d = trim_end - trim_start, or trim_end when trim_start was not given; the
\* input path comes before them and <stem>.mp3 is the last argument.
C17_TrimFlags ==
  \A r \in Requests :
    \A k \in 1..Len(runs[r]) :
      IsEncoderRun(runs[r][k]) =>
        LET argv == runs[r][k].argv
            ss == ArgPos(argv, "-ss")
            t == ArgPos(argv, "-t")
            i == ArgPos(argv, "-i")
        IN /\ (ss # 0) = (req[r].trim_start # None)
           /\ (t # 0) = (req[r].trim_end # None)
           /\ (ss # 0 => argv[ss + 1] = FloatStr(req[r].trim_start[1]))
           /\ (t # 0 /\ ss # 0 =>
                 argv[t + 1] = FloatStr(req[r].trim_end[1] - req[r].trim_start[1]))
           /\ (t # 0 /\ ss = 0 => argv[t + 1] = FloatStr(req[r].trim_end[1]))
           /\ i # 0 /\ argv[i + 1] = <<"recordings/">> \o loc[r].original_name
           /\ (ss # 0 => i + 1 < ss)
           /\ (t # 0 => i + 1 < t)
           /\ argv[Len(argv)] = <<"recordings/">> \o loc[r].stem \o <<".","m","p","3">>

C17_Witness ==
  \E r \in Requests :
    /\ req[r].trim_start = Some(1) /\ req[r].trim_end = Some(2)
    /\ Len(runs[r]) >= 1
    /\ runs[r][1].argv[8] = <<"1", ".", "0">>
    /\ runs[r][1].argv[10] = <<"1", ".", "0">>

\* C18 (as claimed): every -ss value handed to the encoder is >= 0 and every
\* -t duration is > 0.
C18_TrimWindow ==
  \A r \in Requests :
    \A k \in 1..Len(runs[r]) :
      IsEncoderRun(runs[r][k]) =>
        LET argv == runs[r][k].argv
            ss == ArgPos(argv, "-ss")
            t == ArgPos(argv, "-t")
        IN /\ (ss # 0 => \E x \in 0..MaxTrim : argv[ss + 1] = FloatStr(x))
           /\ (t # 0 => \E d \in 1..(MaxTrim + 1) : argv[t + 1] = FloatStr(d))

\* ------------------------------------------------------ the recorder page
PageInit ==
  /\ HandlerInit /\ encoder = "path" /\ env = [bucket |-> TRUE, project |-> TRUE]
  /\ StemIdle
  /\ PageLoaded
  /\ CliIdle

\* the Start handler from setStatus('Recording…') to its end; mediaRecorder
\* .start() throws when the recorder is not inactive and may throw otherwise
StartBody(started) ==
  /\ statusPill' = "Recording"
  /\ startDisabled' = TRUE
  /\ stopDisabled' = FALSE
  /\ playDisabled' = TRUE
  /\ saveDisabled' = TRUE
  /\ recordingActive' = TRUE
  /\ gatePaused' = FALSE
  /\ silenceStartedAt' = None
  /\ takes' = IF started THEN takes + 1 ELSE takes

\* a click on Start: with a mediaRecorder the handler runs to its end, without
\* one it waits in `await initMic(deviceSelect.value)`
StartHandler ==
  /\ starts < MaxStarts
  /\ starts' = starts + 1
  /\ IF recorder = "none"
       THEN /\ initPending < MaxPending
            /\ initPending' = initPending + 1
            /\ UNCHANGED <<startDisabled, stopDisabled, saveDisabled, playDisabled,
                           statusPill, recorder, recordingActive, gatePaused, takes,
                           silenceStartedAt>>
       ELSE /\ \E started \in (IF recorder = "inactive" THEN BOOLEAN ELSE {FALSE}) :
                 /\ StartBody(started)
                 /\ recorder' = IF started THEN "recording" ELSE recorder
            /\ UNCHANGED initPending
  /\ UNCHANGED <<lastBlob, stopTasks, inflight, micPassed, staleSave>>
  /\ UNCHANGED <<handlerVars, stemVars, cliVars, gateRest>>

StartClick == ~startDisabled /\ StartHandler

\* initMic returns: a new MediaRecorder replaces the variable's value and the
\* waiting Start handler runs on
InitMicResolve ==
  /\ initPending > 0
  /\ initPending' = initPending - 1
  /\ micPassed' = TRUE
  /\ \E started \in BOOLEAN :
       /\ StartBody(started)
       /\ recorder' = IF started THEN "recording" ELSE "inactive"
  /\ UNCHANGED <<lastBlob, stopTasks, inflight, starts, staleSave>>
  /\ UNCHANGED <<handlerVars, stemVars, cliVars, gateRest>>

InitMicRejectToggled ==
  /\ initPending > 0
  /\ initPending' = initPending - 1
  /\ startDisabled' = TRUE
  /\ stopDisabled' = FALSE
  /\ UNCHANGED <<saveDisabled, playDisabled, statusPill,
                 recorder, recordingActive, gatePaused, lastBlob, stopTasks,
                 inflight, starts, takes, micPassed, staleSave>>
  /\ UNCHANGED <<handlerVars, stemVars, cliVars, gateVars>>

\* initMic throws (getUserMedia or the MediaRecorder constructor): the Start
\* handler's catch alerts and nothing else changes
InitMicReject ==
  /\ initPending > 0
  /\ initPending' = initPending - 1
  /\ UNCHANGED <<startDisabled, stopDisabled, saveDisabled, playDisabled, statusPill,
                 recorder, recordingActive, gatePaused, lastBlob, stopTasks,
                 inflight, starts, takes, micPassed, staleSave>>
  /\ UNCHANGED <<handlerVars, stemVars, cliVars, gateVars>>

\* a click on Stop; mediaRecorder.stop() on an active recorder makes it
\* inactive and queues the stop event, on an inactive one it does nothing
\* or throws
StopHandler ==
  /\ statusPill' = "Stopping"
  /\ stopDisabled' = TRUE
  /\ startDisabled' = FALSE
  /\ recordingActive' = FALSE
  /\ IF recorder \in {"recording", "paused"}
       THEN /\ recorder' = "inactive"
            /\ stopTasks' = Append(stopTasks, takes)
       ELSE UNCHANGED <<recorder, stopTasks>>
  /\ UNCHANGED <<saveDisabled, playDisabled, gatePaused, lastBlob, initPending,
                 inflight, starts, takes, micPassed, staleSave>>
  /\ UNCHANGED <<handlerVars, stemVars, cliVars, gateVars>>

StopClick == ~stopDisabled /\ StopHandler

\* the Space shortcut outside a form field
SpaceKey ==
  \/ ~startDisabled /\ StartHandler
  \/ startDisabled /\ ~stopDisabled /\ StopHandler

\* mediaRecorder.onstop
OnStop ==
  /\ stopTasks # <<>>
  /\ lastBlob' = Head(stopTasks)
  /\ stopTasks' = Tail(stopTasks)
  /\ saveDisabled' = FALSE
  /\ statusPill' = "Ready to save"
  /\ UNCHANGED <<startDisabled, stopDisabled, playDisabled, recorder, recordingActive,
                 gatePaused, initPending, inflight, starts, takes, micPassed, staleSave>>
  /\ UNCHANGED <<handlerVars, stemVars, cliVars, gateVars>>

\* the Save handler up to `await uploadBlob(lastBlob)`
SaveHandler ==
  /\ IF lastBlob = 0
       THEN UNCHANGED <<saveDisabled, statusPill, inflight, staleSave>>
       ELSE /\ Len(inflight) < MaxPending
            /\ saveDisabled' = TRUE
            /\ statusPill' = "Uploading"
            /\ inflight' = Append(inflight, lastBlob)
            /\ staleSave' = (staleSave \/ recordingActive)
  /\ UNCHANGED <<startDisabled, stopDisabled, playDisabled, recorder, recordingActive,
                 gatePaused, lastBlob, initPending, stopTasks, starts, takes, micPassed>>
  /\ UNCHANGED <<handlerVars, stemVars, cliVars, gateVars>>

SaveClick == ~saveDisabled /\ SaveHandler

\* Ctrl+S: if (!saveBtn.disabled) saveBtn.click()
CtrlS == ~saveDisabled /\ SaveHandler

Without(seq, i) == SubSeq(seq, 1, i - 1) \o SubSeq(seq, i + 1, Len(seq))

\* an upload ends: fetch or res.json() throws ("throw"), the answer is not
\* 2xx ("non2xx"), or the answer is the JSON of a saved recording ("ok")
UploadSettle ==
  /\ \E i \in 1..Len(inflight) :
       /\ inflight' = Without(inflight, i)
       /\ \E outcome \in {"throw", "non2xx", "ok"} :
            /\ statusPill' = IF outcome = "ok" THEN "Saved" ELSE "Error"
            /\ saveDisabled' = IF outcome = "throw" THEN FALSE ELSE saveDisabled
            /\ playDisabled' = IF outcome = "ok" THEN FALSE ELSE playDisabled
  /\ UNCHANGED <<startDisabled, stopDisabled, recorder, recordingActive, gatePaused,
                 lastBlob, initPending, stopTasks, starts, takes, micPassed, staleSave>>
  /\ UNCHANGED <<handlerVars, stemVars, cliVars, gateVars>>

PageNext ==
  \/ StartClick
  \/ InitMicResolve
  \/ InitMicReject
  \/ StopClick
  \/ SpaceKey
  \/ OnStop
  \/ SaveClick
  \/ CtrlS
  \/ UploadSettle

SpecPage == PageInit /\ [][PageNext]_vars

\* C19: Start and Stop are never both enabled, and Stop is enabled only
\* after a Start click that got past the microphone initialisation.
C19_StartStopExclusive ==
  /\ ~(~startDisabled /\ ~stopDisabled)
  /\ (~stopDisabled => micPassed)

C19_Witness ==
  /\ micPassed
  /\ ~stopDisabled /\ startDisabled
  /\ recorder = "inactive"
  /\ starts = 2

\* C20 (as claimed): Save is never enabled while a recording is active, and
\* no Save handler runs during a recording.
C20_SaveOffWhileRecording ==
  /\ (recordingActive => saveDisabled)
  /\ ~staleSave

\* ------------------------------------------------- the page's noise gate
Levels == 0..MaxLevel

\* one frame of draw() once initMic has made the analyser: the level rms of
\* the frame, then the noise gate
Draw ==
  /\ micPassed
  /\ \E level \in Levels :
       /\ rms' = level
       /\ quietSince' = IF level < gateThreshold
                          THEN (IF quietSince = None THEN Some(dateNow) ELSE quietSince)
                          ELSE None
       /\ IF recordingActive /\ recorder # "none" /\ gateEnabled
            THEN IF level < gateThreshold
                   THEN LET since == IF silenceStartedAt = None THEN Some(dateNow)
                                     ELSE silenceStartedAt
                        IN /\ silenceStartedAt' = since
                           /\ IF /\ ~gatePaused
                                 /\ dateNow - since[1] >= gateHold
                                 /\ recorder = "recording"
                                THEN /\ recorder' = "paused"
                                     /\ gatePaused' = TRUE
                                     /\ statusPill' = "Paused (silence)"
                                ELSE UNCHANGED <<recorder, gatePaused, statusPill>>
                   ELSE /\ silenceStartedAt' = None
                        /\ IF gatePaused /\ recorder = "paused"
                             THEN /\ recorder' = "recording"
                                  /\ gatePaused' = FALSE
                                  /\ statusPill' = "Recording"
                             ELSE UNCHANGED <<recorder, gatePaused, statusPill>>
            ELSE UNCHANGED <<silenceStartedAt, recorder, gatePaused, statusPill>>
  /\ UNCHANGED <<startDisabled, stopDisabled, saveDisabled, playDisabled,
                 recordingActive, lastBlob, initPending, stopTasks, inflight,
                 starts, takes, micPassed, staleSave>>
  /\ UNCHANGED <<gateEnabled, gateThreshold, gateHold, dateNow>>
  /\ UNCHANGED <<handlerVars, stemVars, cliVars>>

\* everything a gate setting's change leaves alone: no listener is attached
\* to the three inputs
GateInputRest ==
  <<startDisabled, stopDisabled, saveDisabled, playDisabled, statusPill,
    recorder, recordingActive, gatePaused, lastBlob, initPending, stopTasks,
    inflight, starts, takes, micPassed, staleSave, silenceStartedAt, dateNow,
    rms, quietSince>>

\* the user ticks or unticks the Enabled checkbox
GateEnabledInput ==
  /\ gateEnabled' = ~gateEnabled
  /\ UNCHANGED <<gateThreshold, gateHold, GateInputRest, handlerVars, stemVars, cliVars>>

\* the user moves the Threshold slider
GateThresholdInput ==
  /\ \E v \in 1..MaxLevel : gateThreshold' = v
  /\ UNCHANGED <<gateEnabled, gateHold, GateInputRest, handlerVars, stemVars, cliVars>>

\* the user edits the Hold field
GateHoldInput ==
  /\ \E v \in 1..MaxHold : gateHold' = v
  /\ UNCHANGED <<gateEnabled, gateThreshold, GateInputRest, handlerVars, stemVars, cliVars>>

\* time passes
Elapse ==
  /\ dateNow < MaxTime
  /\ dateNow' = dateNow + 1
  /\ UNCHANGED <<startDisabled, stopDisabled, saveDisabled, playDisabled, statusPill,
                 recorder, recordingActive, gatePaused, lastBlob, initPending,
                 stopTasks, inflight, starts, takes, micPassed, staleSave,
                 gateEnabled, gateThreshold, gateHold, silenceStartedAt, rms,
                 quietSince>>
  /\ UNCHANGED <<handlerVars, stemVars, cliVars>>

\* the steps that bear on the gate: recording, its settings, frames and time
GateNext ==
  \/ StartClick
  \/ InitMicResolve
  \/ InitMicReject
  \/ StopClick
  \/ OnStop
  \/ Draw
  \/ GateEnabledInput
  \/ GateThresholdInput
  \/ GateHoldInput
  \/ Elapse

SpecGate == PageInit /\ [][GateNext]_vars

\* C21 (as claimed): the gate pauses an active recording only when the
\* analysed frames have been below the threshold without a break for at least
\* the hold time, and a frame at or above the threshold analysed while the
\* recording is active and gate-paused ends the pause, whatever the gate
\* settings have been changed to.
C21_GateHoldAndResume ==
  [][/\ (~gatePaused /\ gatePaused') =>
          (quietSince' # None /\ dateNow - quietSince'[1] >= gateHold)
     /\ (Draw /\ recordingActive /\ gatePaused /\ rms' >= gateThreshold) =>
          ~gatePaused']_vars

\* ------------------------------------------- the command-line recorder
CliInit ==
  /\ HandlerInit /\ encoder = "path" /\ env = [bucket |-> TRUE, project |-> TRUE]
  /\ StemIdle
  /\ PageLoaded
  /\ CliIdle

\* what record_audio returns: None after Ctrl+C, else the samples
AudioData == {None, Some(<<>>), Some(<<1>>)}

\* f"recording_{timestamp}.wav" and f"recording_{timestamp}.mp3"
WavFilename(t) == <<"r","e","c","o","r","d","i","n","g","_">> \o Strftime(t) \o <<".","w","a","v">>

Mp3Filename(t) == <<"r","e","c","o","r","d","i","n","g","_">> \o Strftime(t) \o <<".","m","p","3">>

Wav(samples) == [via |-> "wavwrite", data |-> samples, ss |-> None, t |-> None]

\* a file whose writer failed part of the way
Truncated(samples) == [via |-> "truncated", data |-> samples, ss |-> None, t |-> None]

Exported(samples) == [via |-> "export", data |-> samples, ss |-> None, t |-> None]

\* os.remove
RemoveFile(dir, name) == [n \in DOMAIN dir \ {name} |-> dir[n]]

\* the except clause of save_recording: return None
CliFailed ==
  /\ cliPc' = "done"
  /\ cliRet' = None

\* save_recording(audio_data) is called: None returns at once, otherwise the
\* two names are made from the clock
SaveRecording ==
  /\ cliPc \in {"idle", "done"}
  /\ calls < MaxCalls
  /\ calls' = calls + 1
  /\ cliFsBefore' = cliFs
  /\ wavWritten' = FALSE
  /\ cliRet' = None
  /\ \E a \in AudioData :
       /\ audio_data' = a
       /\ IF a = None
            THEN /\ cliPc' = "done"
                 /\ UNCHANGED <<wav_filename, mp3_filename>>
            ELSE /\ cliPc' = "wavwrite"
                 /\ wav_filename' = WavFilename(now)
                 /\ mp3_filename' = Mp3Filename(now)
  /\ UNCHANGED <<cliFs, handlerVars, stemVars, pageVars>>

\* wavwrite(wav_filename, rate, audio_data): the file is written, or it
\* cannot be opened, or writing fails after it was opened
WavWrite ==
  /\ cliPc = "wavwrite"
  /\ \E outcome \in {"ok", "open-fails", "write-fails"} :
       /\ cliFs' = CASE outcome = "ok" -> WriteFile(cliFs, wav_filename, Wav(audio_data[1]))
                     [] outcome = "open-fails" -> cliFs
                     [] outcome = "write-fails" ->
                          WriteFile(cliFs, wav_filename, Truncated(audio_data[1]))
       /\ wavWritten' = (outcome # "open-fails")
       /\ IF outcome = "ok"
            THEN cliPc' = "from_wav" /\ UNCHANGED cliRet
            ELSE CliFailed
  /\ UNCHANGED <<audio_data, wav_filename, mp3_filename, cliFsBefore, calls>>
  /\ UNCHANGED <<handlerVars, stemVars, pageVars>>

\* AudioSegment.from_wav(wav_filename): reads the file, or raises
FromWav ==
  /\ cliPc = "from_wav"
  /\ \E ok \in BOOLEAN :
       IF ok THEN cliPc' = "export" /\ UNCHANGED cliRet
             ELSE CliFailed
  /\ UNCHANGED <<audio_data, wav_filename, mp3_filename, cliFs, cliFsBefore,
                 wavWritten, calls>>
  /\ UNCHANGED <<handlerVars, stemVars, pageVars>>

\* audio.export(mp3_filename, format="mp3"): the MP3 is written, or the
\* export raises before or after it opened the output (no encoder, no space)
Export ==
  /\ cliPc = "export"
  /\ \E outcome \in {"ok", "raises", "raises-partial"} :
       /\ cliFs' = CASE outcome = "ok" ->
                          WriteFile(cliFs, mp3_filename, Exported(audio_data[1]))
                     [] outcome = "raises" -> cliFs
                     [] outcome = "raises-partial" ->
                          WriteFile(cliFs, mp3_filename, Truncated(audio_data[1]))
       /\ IF outcome = "ok"
            THEN cliPc' = "remove" /\ UNCHANGED cliRet
            ELSE CliFailed
  /\ UNCHANGED <<audio_data, wav_filename, mp3_filename, cliFsBefore, wavWritten, calls>>
  /\ UNCHANGED <<handlerVars, stemVars, pageVars>>

\* os.remove(wav_filename), then return mp3_filename; or os.remove raises
Remove ==
  /\ cliPc = "remove"
  /\ \E ok \in BOOLEAN :
       IF ok
         THEN /\ cliFs' = RemoveFile(cliFs, wav_filename)
              /\ cliPc' = "done"
              /\ cliRet' = Some(mp3_filename)
         ELSE /\ CliFailed
              /\ UNCHANGED cliFs
  /\ UNCHANGED <<audio_data, wav_filename, mp3_filename, cliFsBefore, wavWritten, calls>>
  /\ UNCHANGED <<handlerVars, stemVars, pageVars>>

CliNext ==
  \/ Tick
  \/ SaveRecording
  \/ WavWrite
  \/ FromWav
  \/ Export
  \/ Remove

SpecCli == CliInit /\ [][CliNext]_vars

\* C22 (as claimed): when save_recording has returned, the WAV file the call
\* wrote is gone, whether it returned the MP3's name or None; and a call with
\* None has written nothing and returned None.
C22_WavOnlyTemporary ==
  cliPc = "done" =>
    /\ (wavWritten => wav_filename \notin DOMAIN cliFs)
    /\ (audio_data = None => cliRet = None /\ cliFs = cliFsBefore)

\* the page with the browser running what it has queued: a pending initMic
\* settles, a queued stop event is dispatched, a pending fetch settles; the
\* user is free to click or not
SpecPageLive ==
  /\ PageInit
  /\ [][PageNext]_vars
  /\ WF_vars(InitMicResolve \/ InitMicReject)
  /\ WF_vars(OnStop)
  /\ WF_vars(UploadSettle)

\* C23 (as claimed): once a Save has failed and the status shows 'Error',
\* the Save button is eventually enabled again with a recorded blob to send,
\* whether or not the user does anything more.
C23_FailedSaveRetry ==
  (statusPill = "Error") ~> (~saveDisabled /\ lastBlob # 0)

====
